---- MODULE Spec2Model ----
(***************************************************************************)
(* Crossroads: the object-dispatch registry of dbus-rs                     *)
(* (dbus/src/crossroads/crossroads.rs).                                    *)
(*                                                                         *)
(* A Crossroads owns two maps: reg (interface name -> (TypeId, IfaceInfo)) *)
(* and paths (object path -> PathData, a Vec of (TypeId, instance)).       *)
(* register / insert mutate them, get_data and dispatch read them.         *)
(*                                                                         *)
(* Option<T> is modelled as a sequence of length at most one:              *)
(* None is <<>> and Some(x) is <<x>>.  A BTreeMap is a function whose      *)
(* DOMAIN is the set of keys present.  A tuple (a, b) is <<a, b>>, so that *)
(* x.0 is x[1] and x.1 is x[2].                                            *)
(***************************************************************************)
EXTENDS Integers, Sequences, FiniteSets, TLC

VARIABLES reg, paths, phase, ret, calls

vars == <<reg, paths, phase, ret, calls>>

\* ---------------------------------------------------------------- bounds

\* Total number of instances the path table may hold at once.
MaxInstances == 2

\* Number of threads that call dispatch on a shared registry.
MaxCalls == 2

\* ---------------------------------------------------------------- Option

None == <<>>

Some(x) == <<x>>

\* ------------------------------------------------------------ identifiers

ScoreName == "com.example.dbusrs.crossroads.score"

OtherName == "com.example.dbusrs.crossroads.other"

PropsName == "org.freedesktop.DBus.Properties"

IfaceNames == {ScoreName, OtherName, PropsName}

PathNames == {"/", "/other"}

\* ------------------------------------------------- instances and TypeIds

\* struct Score(u16) holding 7, as in the test, and a second value.
Score(v) == [type |-> "Score", val |-> v]

\* A second concrete type, backing another interface.
Other(v) == [type |-> "Other", val |-> v]

\* The unit struct of the builtin properties handler.
DBusProperties == [type |-> "DBusProperties", val |-> 0]

Instances == {Score(7), Score(8), Other(9), DBusProperties}

TypeId_of(i) == i.type

TypeIds == {TypeId_of(i) : i \in Instances}

\* ---------------------------------------------------------------- PathData

PathData_new == <<>>

\* Mutant of PathData::insert: every entry gets the TypeId of the first one.
PathData_insert_stale_id(self, i) ==
    LET id == IF self = <<>> THEN TypeId_of(i) ELSE self[1][1]
        t  == i
    IN  Append(self, <<id, t>>)

PathData_insert(self, i) ==
    LET id == TypeId_of(i)
        t  == i
    IN  Append(self, <<id, t>>)

\* Every PathData a caller can build with at most n calls of PathData::insert.
RECURSIVE PathDatasUpTo(_)
PathDatasUpTo(n) ==
    IF n = 0 THEN {PathData_new}
    ELSE LET s == PathDatasUpTo(n - 1)
         IN  s \cup {PathData_insert(d, i) : d \in s, i \in Instances}

\* The PathData values callers hand to Crossroads::insert.
PathDatas == PathDatasUpTo(MaxInstances)

\* ---------------------------------------------------------------- BTreeMap

BTreeMap_new == [k \in {} |-> None]

\* Mutant of BTreeMap::insert: the map is rebuilt with the new entry alone.
BTreeMap_insert_alone(m, k, v) == [x \in {k} |-> v]

\* BTreeMap::insert: stores v under k, returns the displaced value if any.
BTreeMap_insert(m, k, v) == [x \in (DOMAIN m) \cup {k} |-> IF x = k THEN v ELSE m[x]]

BTreeMap_get(m, k) == IF k \in DOMAIN m THEN Some(m[k]) ELSE None

\* ---------------------------------------------------------------- messages

Message_new_method_call(path, iface, member) ==
    [msg_type |-> "MethodCall", path |-> Some(path), interface |-> Some(iface),
     member |-> Some(member), args |-> <<>>]

\* Message::append2
append2(msg, a, b) == [msg EXCEPT !.args = <<a, b>>]

\* msg.method_return().append1(v)
method_return(msg, v) ==
    [msg_type |-> "MethodReturn", path |-> None, interface |-> None,
     member |-> None, args |-> <<v>>]

\* A standard error reply addressed back to the caller.
error_reply(msg, name) ==
    [msg_type |-> "Error", path |-> None, interface |-> None,
     member |-> None, args |-> <<[error |-> name]>>]

\* Mutant of msg_headers: the message type is not checked.
msg_headers_any_type(msg) ==
    IF msg.path = None THEN None
    ELSE IF msg.interface = None THEN None
    ELSE IF msg.member = None THEN None
    ELSE Some([m |-> msg.member[1], i |-> msg.interface[1], p |-> msg.path[1]])

msg_headers(msg) ==
    IF msg.msg_type # "MethodCall" THEN None
    ELSE IF msg.path = None THEN None
    ELSE IF msg.interface = None THEN None
    ELSE IF msg.member = None THEN None
    ELSE Some([m |-> msg.member[1], i |-> msg.interface[1], p |-> msg.path[1]])

\* ------------------------------------------------------------- IfaceInfo

MethodInfo_new_sync(name, handler) == [name |-> name, handler |-> handler]

PropInfo_new_sync_ro(name, handler) == [name |-> name, access |-> "ro", handler |-> handler]

IfaceInfo_new(name, methods, props) == [name |-> name, methods |-> methods, props |-> props]

\* The interface of the test: method Hello and read-only property Score.
ScoreInfo(name) ==
    IfaceInfo_new(name,
        <<MethodInfo_new_sync("Hello", "hello")>>,
        <<PropInfo_new_sync_ro("Score", "score")>>)

\* A second interface description: Hello, plus a method that declines to reply;
\* no properties.
QuietInfo(name) ==
    IfaceInfo_new(name,
        <<MethodInfo_new_sync("Hello", "hello"), MethodInfo_new_sync("Quiet", "quiet")>>,
        <<>>)

\* A third interface description: Hello, plus a method whose handler never
\* returns; property Score.
WaitInfo(name) ==
    IfaceInfo_new(name,
        <<MethodInfo_new_sync("Hello", "hello"), MethodInfo_new_sync("Wait", "stall")>>,
        <<PropInfo_new_sync_ro("Score", "score")>>)

\* The builtin properties interface.
DBusPropertiesInfo ==
    IfaceInfo_new(PropsName,
        <<MethodInfo_new_sync("Get", "get"), MethodInfo_new_sync("Set", "set"),
          MethodInfo_new_sync("GetAll", "getall")>>,
        <<>>)

\* ------------------------------------------------------------- Crossroads

Crossroads(r, p) == [reg |-> r, paths |-> p]

\* Mutant of register: an existing entry is kept (entry().or_insert()).
register_keep_first(self, I, info) ==
    LET prev == BTreeMap_get(self.reg, info.name)
    IN  [cr  |-> IF prev = None
                 THEN [self EXCEPT !.reg = BTreeMap_insert(self.reg, info.name, <<I, info>>)]
                 ELSE self,
         ret |-> IF prev = None THEN None ELSE Some(prev[1][2])]

\* Mutant of register: a name that is already registered keeps its TypeId and
\* only its description is replaced.
register_keep_type(self, I, info) ==
    LET prev == BTreeMap_get(self.reg, info.name)
        id   == IF prev = None THEN I ELSE prev[1][1]
    IN  [cr  |-> [self EXCEPT !.reg = BTreeMap_insert(self.reg, info.name, <<id, info>>)],
         ret |-> IF prev = None THEN None ELSE Some(prev[1][2])]

\* Crossroads::register::<I>(info): (new registry, returned Option<IfaceInfo>)
register(self, I, info) ==
    LET prev == BTreeMap_get(self.reg, info.name)
    IN  [cr  |-> [self EXCEPT !.reg = BTreeMap_insert(self.reg, info.name, <<I, info>>)],
         ret |-> IF prev = None THEN None ELSE Some(prev[1][2])]

\* Mutant of insert: the new entries are added to the PathData already there.
insert_extend(self, name, data) ==
    LET prev == BTreeMap_get(self.paths, name)
    IN  [self EXCEPT !.paths = BTreeMap_insert(self.paths, name,
                                   IF prev = None THEN data ELSE prev[1] \o data)]

insert(self, name, data) ==
    [self EXCEPT !.paths = BTreeMap_insert(self.paths, name, data)]

get_data(self, name) == BTreeMap_get(self.paths, name)

\* Mutant of find_method: falls back to the first method when none matches.
find_method_or_first(methods, m) ==
    LET hits == {k \in 1..Len(methods) : methods[k].name = m}
    IN  IF hits # {} THEN Some(methods[CHOOSE k \in hits : \A j \in hits : k <= j])
        ELSE IF methods = <<>> THEN None ELSE Some(methods[1])

\* iinfo.methods.iter().find(|x| x.name == m)
find_method(methods, m) ==
    LET hits == {k \in 1..Len(methods) : methods[k].name = m}
    IN  IF hits = {} THEN None
        ELSE Some(methods[CHOOSE k \in hits : \A j \in hits : k <= j])

\* Mutant of find_prop: falls back to the first property when none matches.
find_prop_or_first(props, propname) ==
    LET hits == {k \in 1..Len(props) : props[k].name = propname}
    IN  IF hits # {} THEN Some(props[CHOOSE k \in hits : \A j \in hits : k <= j])
        ELSE IF props = <<>> THEN None ELSE Some(props[1])

\* iinfo.props.iter().find(|x| x.name.as_cstr() == propname)
find_prop(props, propname) ==
    LET hits == {k \in 1..Len(props) : props[k].name = propname}
    IN  IF hits = {} THEN None
        ELSE Some(props[CHOOSE k \in hits : \A j \in hits : k <= j])

\* Mutant of find_iface: takes the first entry without comparing its TypeId.
find_iface_any(data, typeid) ==
    IF data = <<>> THEN None ELSE Some(data[1])

\* Mutant of find_iface: falls back to the first entry when no tag matches.
find_iface_or_first(data, typeid) ==
    LET hits == {k \in 1..Len(data) : data[k][1] = typeid}
    IN  IF hits # {} THEN Some(data[CHOOSE k \in hits : \A j \in hits : k <= j])
        ELSE IF data = <<>> THEN None ELSE Some(data[1])

\* Mutant of find_iface: the last matching entry is taken (rfind).
find_iface_last(data, typeid) ==
    LET hits == {k \in 1..Len(data) : data[k][1] = typeid}
    IN  IF hits = {} THEN None
        ELSE Some(data[CHOOSE k \in hits : \A j \in hits : k >= j])

\* data.0.iter().find(|x| x.0 == *typeid)
find_iface(data, typeid) ==
    LET hits == {k \in 1..Len(data) : data[k][1] = typeid}
    IN  IF hits = {} THEN None
        ELSE Some(data[CHOOSE k \in hits : \A j \in hits : k <= j])

MLookup(cr, data, iface, iinfo) == [cr |-> cr, data |-> data, iface |-> iface, iinfo |-> iinfo]

\* Mutant of reg_lookup: the path table is searched with the interface name.
reg_lookup_wrong_key(self, headers) ==
    LET e == BTreeMap_get(self.reg, headers.i)
    IN  IF e = None THEN None ELSE
    LET typeid == e[1][1]
        iinfo  == e[1][2]
        minfo  == find_method(iinfo.methods, headers.m)
    IN  IF minfo = None THEN None ELSE
    LET data == BTreeMap_get(self.paths, headers.i)
    IN  IF data = None THEN None ELSE
    LET f == find_iface(data[1], typeid)
    IN  IF f = None THEN None ELSE
        Some(<<MLookup(self, data[1], f[1][2], iinfo), minfo[1]>>)

reg_lookup(self, headers) ==
    LET e == BTreeMap_get(self.reg, headers.i)
    IN  IF e = None THEN None ELSE
    LET typeid == e[1][1]
        iinfo  == e[1][2]
        minfo  == find_method(iinfo.methods, headers.m)
    IN  IF minfo = None THEN None ELSE
    LET data == BTreeMap_get(self.paths, headers.p)
    IN  IF data = None THEN None ELSE
    LET f == find_iface(data[1], typeid)
    IN  IF f = None THEN None ELSE
        Some(<<MLookup(self, data[1], f[1][2], iinfo), minfo[1]>>)

\* Mutant of reg_prop_lookup: the instance is searched with x.0 != *typeid.
reg_prop_lookup_other_type(self, data, iname, propname) ==
    LET e == BTreeMap_get(self.reg, iname)
    IN  IF e = None THEN None ELSE
    LET typeid == e[1][1]
        iinfo  == e[1][2]
        pinfo  == find_prop(iinfo.props, propname)
    IN  IF pinfo = None THEN None ELSE
    LET hits == {k \in 1..Len(data) : data[k][1] # typeid}
    IN  IF hits = {} THEN None ELSE
        Some(<<MLookup(self, data, data[CHOOSE k \in hits : \A j \in hits : k <= j][2], iinfo),
               pinfo[1]>>)

\* Mutant of reg_prop_lookup: when data holds no instance of the type, the
\* PathData of the other paths are searched.
reg_prop_lookup_all_paths(self, data, iname, propname) ==
    LET e == BTreeMap_get(self.reg, iname)
    IN  IF e = None THEN None ELSE
    LET typeid == e[1][1]
        iinfo  == e[1][2]
        pinfo  == find_prop(iinfo.props, propname)
    IN  IF pinfo = None THEN None ELSE
    LET qs == {q \in DOMAIN self.paths : find_iface(self.paths[q], typeid) # None}
        f  == IF find_iface(data, typeid) # None \/ qs = {} THEN find_iface(data, typeid)
              ELSE find_iface(self.paths[CHOOSE q \in qs : TRUE], typeid)
    IN  IF f = None THEN None ELSE
        Some(<<MLookup(self, data, f[1][2], iinfo), pinfo[1]>>)

reg_prop_lookup(self, data, iname, propname) ==
    LET e == BTreeMap_get(self.reg, iname)
    IN  IF e = None THEN None ELSE
    LET typeid == e[1][1]
        iinfo  == e[1][2]
        pinfo  == find_prop(iinfo.props, propname)
    IN  IF pinfo = None THEN None ELSE
    LET f == find_iface(data, typeid)
    IN  IF f = None THEN None ELSE
        Some(<<MLookup(self, data, f[1][2], iinfo), pinfo[1]>>)

\* ---------------------------------------------------------------- handlers
\* A handler is a closure stored in a MethodInfo or PropInfo; the model names it.
\* Its result is r (the Option<Message> the closure returns) and invoked, the
\* record of the closures that ran: <<handler, instance>> for each call.

SyncInfo(cr, pd) == [cr |-> cr, pd |-> pd]

Ran(handler, x, r) == [r |-> r, invoked |-> <<<<handler, x>>>>]

\* |x: &Score, msg, _| Some(msg.method_return().append1(format!(..., x.0)))
hello(x, msg, si) ==
    Ran("hello", x, Some(method_return(msg, [fmt |-> "Hello, my score is {}!", arg |-> x.val])))

\* A method handler that declines to reply.
quiet(x, msg, si) == Ran("quiet", x, None)

\* |x: &Score, _, _| Some(x.0): the getter of property Score.
score(x) == [r |-> Some(x.val), invoked |-> <<<<"score", x>>>>]

\* The getter or setter a PropInfo stores.
prop_handler(pinfo, x) == score(x)

\* Properties.Get(interface_name, property_name)
prop_get(x, msg, si) ==
    IF Len(msg.args) # 2 THEN Ran("get", x, Some(error_reply(msg, "InvalidArgs"))) ELSE
    LET l == reg_prop_lookup(si.cr, si.pd, msg.args[1], msg.args[2])
    IN  IF l = None THEN Ran("get", x, Some(error_reply(msg, "UnknownProperty"))) ELSE
    LET lookup == l[1][1]
        pinfo  == l[1][2]
    IN  IF pinfo.access = "wo"
        THEN Ran("get", x, Some(error_reply(msg, "PropertyNotReadable")))
        ELSE LET g == prop_handler(pinfo, lookup.iface)
             IN  [r |-> Some(method_return(msg, [variant |-> g.r[1]])),
                  invoked |-> <<<<"get", x>>>> \o g.invoked]

\* Properties.Set(interface_name, property_name, value)
prop_set(x, msg, si) ==
    IF Len(msg.args) # 3 THEN Ran("set", x, Some(error_reply(msg, "InvalidArgs"))) ELSE
    LET l == reg_prop_lookup(si.cr, si.pd, msg.args[1], msg.args[2])
    IN  IF l = None THEN Ran("set", x, Some(error_reply(msg, "UnknownProperty"))) ELSE
    LET pinfo == l[1][2]
    IN  IF pinfo.access = "ro"
        THEN Ran("set", x, Some(error_reply(msg, "PropertyReadOnly")))
        ELSE Ran("set", x, Some([method_return(msg, 0) EXCEPT !.args = <<>>]))

\* Properties.GetAll(interface_name)
prop_getall(x, msg, si) ==
    IF Len(msg.args) # 1 THEN Ran("getall", x, Some(error_reply(msg, "InvalidArgs"))) ELSE
    LET e == BTreeMap_get(si.cr.reg, msg.args[1])
    IN  IF e = None THEN Ran("getall", x, Some(error_reply(msg, "UnknownInterface"))) ELSE
    LET f == find_iface(si.pd, e[1][1])
    IN  IF f = None THEN Ran("getall", x, Some(error_reply(msg, "UnknownInterface"))) ELSE
    LET props == e[1][2].props
        vals  == [k \in 1..Len(props) |-> <<props[k].name, prop_handler(props[k], f[1][2]).r[1]>>]
    IN  [r |-> Some(method_return(msg, [variants |-> vals])),
         invoked |-> <<<<"getall", x>>>> \o
                     [k \in 1..Len(props) |-> <<props[k].handler, f[1][2]>>]]

\* (handler)(&**lookup.iface, msg, &mut si)
call(handler, x, msg, si) ==
    CASE handler = "hello"  -> hello(x, msg, si)
      [] handler = "quiet"  -> quiet(x, msg, si)
      [] handler = "get"    -> prop_get(x, msg, si)
      [] handler = "set"    -> prop_set(x, msg, si)
      [] handler = "getall" -> prop_getall(x, msg, si)

\* r.into_iter().collect(): an Option<Message> becomes a Vec of zero or one message.
collect(r) == r

NotHandled == [ret |-> None, invoked |-> <<>>]

\* Mutant of dispatch: a handler that produced no reply counts as not handled.
dispatch_drop_empty(self, msg) ==
    LET headers == msg_headers(msg)
    IN  IF headers = None THEN NotHandled ELSE
    LET l == reg_lookup(self, headers[1])
    IN  IF l = None THEN NotHandled ELSE
    LET lookup  == l[1][1]
        minfo   == l[1][2]
        si      == SyncInfo(lookup.cr, lookup.data)
        r       == call(minfo.handler, lookup.iface, msg, si)
    IN  [ret |-> IF r.r = None THEN None ELSE Some(collect(r.r)), invoked |-> r.invoked]

dispatch(self, msg) ==
    LET headers == msg_headers(msg)
    IN  IF headers = None THEN NotHandled ELSE
    LET l == reg_lookup(self, headers[1])
    IN  IF l = None THEN NotHandled ELSE
    LET lookup  == l[1][1]
        minfo   == l[1][2]
        handler == minfo.handler
        si      == SyncInfo(lookup.cr, lookup.data)
        r       == call(handler, lookup.iface, msg, si)
    IN  [ret |-> Some(collect(r.r)), invoked |-> r.invoked]

\* Mutant of dispatch_steps: the path table is consulted before the registry.
dispatch_steps_path_first(self, msg) ==
    LET headers == msg_headers(msg)
    IN  IF headers = None THEN <<"headers">> ELSE
    LET data == BTreeMap_get(self.paths, headers[1].p)
    IN  IF data = None THEN <<"headers", "path">> ELSE
    LET e == BTreeMap_get(self.reg, headers[1].i)
    IN  IF e = None THEN <<"headers", "path", "interface">> ELSE
    LET minfo == find_method(e[1][2].methods, headers[1].m)
    IN  IF minfo = None THEN <<"headers", "path", "interface", "method">> ELSE
    LET f == find_iface(data[1], e[1][1])
    IN  IF f = None THEN <<"headers", "path", "interface", "method", "instance">>
        ELSE <<"headers", "path", "interface", "method", "instance", "handler">>

\* The steps one call of dispatch executes, in the order of the statements of
\* msg_headers(msg)?, reg_lookup(..)? and the handler call: each `?` returns at
\* the first None, so the sequence ends with the step that missed.
dispatch_steps(self, msg) ==
    LET headers == msg_headers(msg)
    IN  IF headers = None THEN <<"headers">> ELSE
    LET e == BTreeMap_get(self.reg, headers[1].i)
    IN  IF e = None THEN <<"headers", "interface">> ELSE
    LET minfo == find_method(e[1][2].methods, headers[1].m)
    IN  IF minfo = None THEN <<"headers", "interface", "method">> ELSE
    LET data == BTreeMap_get(self.paths, headers[1].p)
    IN  IF data = None THEN <<"headers", "interface", "method", "path">> ELSE
    LET f == find_iface(data[1], e[1][1])
    IN  IF f = None THEN <<"headers", "interface", "method", "path", "instance">>
        ELSE <<"headers", "interface", "method", "path", "instance", "handler">>

\* DBusProperties::register(&mut cr)
DBusProperties_register(cr) == register(cr, TypeId_of(DBusProperties), DBusPropertiesInfo).cr

\* Mutant of new_sync: the builtin properties interface is not registered.
new_sync_unseeded == Crossroads(BTreeMap_new, BTreeMap_new)

new_sync ==
    LET cr == Crossroads(BTreeMap_new, BTreeMap_new)
    IN  DBusProperties_register(cr)

\* ------------------------------------------------------------ the callers

\* The registrations callers make, as <<I, info>> of register::<I>(info): the
\* test's interface for Score, a re-registration with another description, one
\* for another concrete type, and a second interface backed by Other.
Registrations ==
    {<<TypeId_of(Score(7)), ScoreInfo(ScoreName)>>,
     <<TypeId_of(Score(7)), QuietInfo(ScoreName)>>,
     <<TypeId_of(Other(9)), ScoreInfo(ScoreName)>>,
     <<TypeId_of(Other(9)), ScoreInfo(OtherName)>>}

\* The requests that arrive: method calls to every path, interface and member,
\* Properties.Get calls with arguments, a Properties.Set and a Properties.GetAll
\* call, and messages dispatch must not claim.
Requests ==
    {Message_new_method_call(p, i, m) :
        p \in PathNames, i \in {ScoreName, OtherName}, m \in {"Hello", "Quiet"}}
    \cup {append2(Message_new_method_call(p, PropsName, "Get"), a[1], a[2]) :
        p \in PathNames,
        a \in {<<ScoreName, "Score">>, <<ScoreName, "Nope">>, <<OtherName, "Score">>}}
    \cup {[Message_new_method_call("/", PropsName, "Set") EXCEPT !.args = <<ScoreName, "Score", 1>>],
          [Message_new_method_call("/", PropsName, "GetAll") EXCEPT !.args = <<ScoreName>>]}
    \cup {[Message_new_method_call("/", ScoreName, "Hello") EXCEPT !.msg_type = "Signal"],
          [Message_new_method_call("/", ScoreName, "Hello") EXCEPT !.path = None],
          [Message_new_method_call("/", ScoreName, "Hello") EXCEPT !.interface = None],
          [Message_new_method_call("/", ScoreName, "Hello") EXCEPT !.member = None]}

cr == Crossroads(reg, paths)

RECURSIVE SumLen(_, _)
SumLen(m, ks) ==
    IF ks = {} THEN 0
    ELSE LET k == CHOOSE k \in ks : TRUE IN Len(m[k]) + SumLen(m, ks \ {k})

\* Number of instances the path table holds.
Stored(p) == SumLen(p, DOMAIN p)

\* ------------------------------------------------------------- the machine
\* register and insert take &mut self, get_data and dispatch take &self: the
\* owner sets the registry up ("setup"), then exposes it to readers ("serving").
\* ret records the last call: its name, its arguments, the value it returned and
\* the handlers it ran.  insert returns (); its val notes whether the call
\* displaced an entry (the value of BTreeMap::insert that the code drops).

\* The threads that call dispatch once the registry is shared.
Threads == 1..MaxCalls

\* A thread that is not inside dispatch.
Idle == [pc |-> "idle", msg |-> None, lookup |-> None, out |-> None]

Init ==
    /\ reg = new_sync.reg
    /\ paths = new_sync.paths
    /\ phase = "setup"
    /\ ret = [op |-> "new_sync", arg |-> <<>>, val |-> None, invoked |-> <<>>]
    /\ calls = [t \in Threads |-> Idle]

Register(I, info) ==
    LET res == register(cr, I, info)
    IN  /\ phase = "setup"
        /\ reg' = res.cr.reg
        /\ paths' = res.cr.paths
        /\ ret' = [op |-> "register", arg |-> <<I, info>>, val |-> res.ret, invoked |-> <<>>]
        /\ UNCHANGED <<phase, calls>>

Insert(name, data) ==
    LET res == insert(cr, name, data)
    IN  /\ phase = "setup"
        /\ Stored(res.paths) <= MaxInstances
        /\ reg' = res.reg
        /\ paths' = res.paths
        /\ ret' = [op |-> "insert", arg |-> <<name, data>>,
                   val |-> Some(name \in DOMAIN paths), invoked |-> <<>>]
        /\ UNCHANGED <<phase, calls>>

GetData(name) ==
    /\ phase' = "serving"
    /\ ret' = [op |-> "get_data", arg |-> <<name>>, val |-> get_data(cr, name), invoked |-> <<>>]
    /\ UNCHANGED <<reg, paths, calls>>

\* Mutant of Dispatch: a request to a path that has no entry creates an empty one
\* (entry(path).or_default() in place of get(path)).
Dispatch_or_default(msg) ==
    LET res == dispatch(cr, msg)
    IN  /\ phase' = "serving"
        /\ ret' = [op |-> "dispatch", arg |-> <<msg>>, val |-> res.ret, invoked |-> res.invoked]
        /\ paths' = IF msg.path # None /\ msg.path[1] \notin DOMAIN paths
                    THEN BTreeMap_insert(paths, msg.path[1], PathData_new)
                    ELSE paths
        /\ UNCHANGED <<reg, calls>>

Dispatch(msg) ==
    LET res == dispatch(cr, msg)
    IN  /\ phase' = "serving"
        /\ ret' = [op |-> "dispatch", arg |-> <<msg>>, val |-> res.ret, invoked |-> res.invoked]
        /\ UNCHANGED <<reg, paths, calls>>

Next ==
    \/ \E r \in Registrations : Register(r[1], r[2])
    \/ \E name \in PathNames, data \in PathDatas : Insert(name, data)
    \/ \E name \in PathNames : GetData(name)
    \/ \E msg \in Requests : Dispatch(msg)

Spec == Init /\ [][Next]_vars

\* ------------------------------------------------- dispatch, step by step
\* Crossroads is Send + Sync (test_send_sync): once set up, one registry serves
\* dispatch calls of several threads.  calls[t] follows thread t through one
\* call of dispatch: "lookup" (lines 101-102), "handler" (the handler runs,
\* line 105), "returned" with out = Some(the Option<Vec<Message>> returned).

\* The registries that are served: the test's setup, with the plain and with
\* the waiting description, over a path that backs them and one that does not.
Served ==
    {insert(register(new_sync, TypeId_of(Score(7)), info).cr, "/", data) :
        info \in {ScoreInfo(ScoreName), WaitInfo(ScoreName)},
        data \in {PathData_insert(PathData_insert(PathData_new, Score(7)), DBusProperties),
                  PathData_insert(PathData_new, Other(9))}}

\* The requests the threads dispatch.
ServeRequests ==
    {Message_new_method_call("/", ScoreName, "Hello"),
     Message_new_method_call("/", ScoreName, "Wait"),
     Message_new_method_call("/other", ScoreName, "Hello"),
     append2(Message_new_method_call("/", PropsName, "Get"), ScoreName, "Score")}

\* The handler returns to its caller; "stall" is a closure that blocks forever.
Terminates(handler) == handler # "stall"

ServeInit ==
    /\ \E c \in Served : reg = c.reg /\ paths = c.paths
    /\ phase = "serving"
    /\ ret = [op |-> "serve", arg |-> <<>>, val |-> None, invoked |-> <<>>]
    /\ calls = [t \in Threads |-> Idle]

\* Thread t calls cr.dispatch(&msg).
Call(t, msg) ==
    /\ calls[t].pc = "idle"
    /\ calls' = [calls EXCEPT ![t] = [Idle EXCEPT !.pc = "lookup", !.msg = Some(msg)]]
    /\ UNCHANGED <<reg, paths, phase, ret>>

\* Mutant of Lookup: the handler is handed to another thread and the call
\* returns at once with no reply.
Lookup_detached(t) ==
    LET msg     == calls[t].msg[1]
        headers == msg_headers(msg)
        l       == IF headers = None THEN None ELSE reg_lookup(cr, headers[1])
    IN  /\ calls[t].pc = "lookup"
        /\ calls' = [calls EXCEPT ![t] =
                        IF l = None THEN [@ EXCEPT !.pc = "returned", !.out = Some(None)]
                        ELSE [@ EXCEPT !.pc = "returned", !.out = Some(Some(<<>>))]]
        /\ UNCHANGED <<reg, paths, phase, ret>>

\* msg_headers(msg)? and self.reg_lookup(..)?: a miss returns None to the
\* caller, a hit enters the handler.
Lookup(t) ==
    LET msg     == calls[t].msg[1]
        headers == msg_headers(msg)
        l       == IF headers = None THEN None ELSE reg_lookup(cr, headers[1])
    IN  /\ calls[t].pc = "lookup"
        /\ calls' = [calls EXCEPT ![t] =
                        IF l = None THEN [@ EXCEPT !.pc = "returned", !.out = Some(None)]
                        ELSE [@ EXCEPT !.pc = "handler", !.lookup = l]]
        /\ UNCHANGED <<reg, paths, phase, ret>>

\* Mutant of HandlerReturns: the request is read from a slot that all calls
\* share, which the first thread's call overwrites.
HandlerReturns_shared_msg(t) ==
    LET msg     == IF calls[1].msg # None THEN calls[1].msg[1] ELSE calls[t].msg[1]
        lookup  == calls[t].lookup[1][1]
        minfo   == calls[t].lookup[1][2]
        si      == SyncInfo(lookup.cr, lookup.data)
    IN  /\ calls[t].pc = "handler"
        /\ Terminates(minfo.handler)
        /\ calls' = [calls EXCEPT ![t] =
                        [@ EXCEPT !.pc = "returned",
                                  !.out = Some(Some(collect(call(minfo.handler, lookup.iface, msg, si).r)))]]
        /\ UNCHANGED <<reg, paths, phase, ret>>

\* The handler returns r and dispatch returns Some(r.into_iter().collect()).
HandlerReturns(t) ==
    LET msg     == calls[t].msg[1]
        lookup  == calls[t].lookup[1][1]
        minfo   == calls[t].lookup[1][2]
        si      == SyncInfo(lookup.cr, lookup.data)
    IN  /\ calls[t].pc = "handler"
        /\ Terminates(minfo.handler)
        /\ calls' = [calls EXCEPT ![t] =
                        [@ EXCEPT !.pc = "returned",
                                  !.out = Some(Some(collect(call(minfo.handler, lookup.iface, msg, si).r)))]]
        /\ UNCHANGED <<reg, paths, phase, ret>>

\* The caller takes the result; the thread may call again.
Return(t) ==
    /\ calls[t].pc = "returned"
    /\ calls' = [calls EXCEPT ![t] = Idle]
    /\ UNCHANGED <<reg, paths, phase, ret>>

ServeNext ==
    \E t \in Threads :
        \/ \E msg \in ServeRequests : Call(t, msg)
        \/ Lookup(t)
        \/ HandlerReturns(t)
        \/ Return(t)

\* Every calling thread keeps running, and a handler that terminates returns.
ServeSpec ==
    /\ ServeInit
    /\ [][ServeNext]_vars
    /\ \A t \in Threads : WF_vars(Lookup(t)) /\ WF_vars(HandlerReturns(t))

\* ----------------------------------------------------- reading the record

\* The request of the dispatch call that ret records.
Req == ret.arg[1]

\* msg is a method call that carries a path, an interface and a member.
HasAllHeaders(msg) ==
    /\ msg.msg_type = "MethodCall"
    /\ msg.path # None
    /\ msg.interface # None
    /\ msg.member # None

\* The instances a PathData holds whose concrete type is T.
InstancesOf(data, T) == {data[k][2] : k \in {j \in 1..Len(data) : data[j][2].type = T}}

\* The handlers an interface description stores for member m.
HandlersOf(info, m) ==
    {info.methods[k].handler : k \in {j \in 1..Len(info.methods) : info.methods[j].name = m}}

\* The method handlers of the callers that produce a reply whenever they run.
Replying == {"hello"}

\* -------------------------------------------------------------------- C1
\* C1: when interface I is registered under type T with a method M whose handler
\* produces a reply, and path P holds an instance of type T, a dispatch of the
\* method call (P, I, M) is handled and returns exactly one reply.
C1_RegisteredMethodReplies ==
    (ret.op = "dispatch" /\ HasAllHeaders(Req)) =>
        LET p == Req.path[1]
            i == Req.interface[1]
            m == Req.member[1]
        IN  ( /\ i \in DOMAIN reg
              /\ p \in DOMAIN paths
              /\ HandlersOf(reg[i][2], m) # {}
              /\ HandlersOf(reg[i][2], m) \subseteq Replying
              /\ InstancesOf(paths[p], reg[i][1]) # {} )
            => (ret.val # None /\ Len(ret.val[1]) = 1)

\* The test's case: Hello on Score(7) at "/" answered with one method return.
C1_Witness ==
    /\ ret.op = "dispatch"
    /\ Req = Message_new_method_call("/", ScoreName, "Hello")
    /\ BTreeMap_get(reg, ScoreName) = Some(<<"Score", ScoreInfo(ScoreName)>>)
    /\ ret.val = Some(<<method_return(Req, [fmt |-> "Hello, my score is {}!", arg |-> 7])>>)

\* -------------------------------------------------------------------- C2
\* C2: a dispatch of a method call whose path is not in the path table, or whose
\* interface is not registered, or whose member is not a method of the interface,
\* is not handled (no reply sequence), and no handler runs.
C2_UnknownTargetNotHandled ==
    (ret.op = "dispatch" /\ HasAllHeaders(Req)) =>
        LET p == Req.path[1]
            i == Req.interface[1]
            m == Req.member[1]
        IN  ( \/ p \notin DOMAIN paths
              \/ i \notin DOMAIN reg
              \/ (i \in DOMAIN reg /\ HandlersOf(reg[i][2], m) = {}) )
            => (ret.val = None /\ ret.invoked = <<>>)

\* An unknown member of a registered interface, at a path that holds its instance.
C2_Witness ==
    /\ ret.op = "dispatch"
    /\ Req = Message_new_method_call("/", ScoreName, "Quiet")
    /\ BTreeMap_get(reg, ScoreName) = Some(<<"Score", ScoreInfo(ScoreName)>>)
    /\ BTreeMap_get(paths, "/") = Some(PathData_insert(PathData_new, Score(7)))
    /\ ret.val = None

\* -------------------------------------------------------------------- C3
\* C3: a dispatch of a message that is not a method call, or of a method call
\* that lacks its path, interface or member header, is not handled, whatever is
\* registered and inserted.
C3_MalformedNotHandled ==
    (ret.op = "dispatch" /\ ~HasAllHeaders(Req)) => (ret.val = None /\ ret.invoked = <<>>)

\* A signal that names a registered interface, method and path is not handled.
C3_Witness ==
    /\ ret.op = "dispatch"
    /\ Req.msg_type = "Signal"
    /\ Req.path # None /\ Req.interface # None /\ Req.member # None
    /\ Req.interface[1] \in DOMAIN reg
    /\ Req.path[1] \in DOMAIN paths
    /\ HandlersOf(reg[Req.interface[1]][2], Req.member[1]) # {}
    /\ InstancesOf(paths[Req.path[1]], reg[Req.interface[1]][1]) # {}
    /\ ret.val = None

\* -------------------------------------------------------------------- C4
\* C4: when interface I (registered for type T) has method M and path P exists,
\* but P holds no instance of type T, dispatch to (P, I, M) is not handled and no
\* handler runs: an instance of another type is never handed to I's handler.
C4_NoBackingInstanceNotHandled ==
    (ret.op = "dispatch" /\ HasAllHeaders(Req)) =>
        LET p == Req.path[1]
            i == Req.interface[1]
            m == Req.member[1]
        IN  ( /\ i \in DOMAIN reg
              /\ HandlersOf(reg[i][2], m) # {}
              /\ p \in DOMAIN paths
              /\ InstancesOf(paths[p], reg[i][1]) = {} )
            => (ret.val = None /\ ret.invoked = <<>>)

\* The path holds an instance, but of another type.
C4_Witness ==
    /\ ret.op = "dispatch"
    /\ Req = Message_new_method_call("/", ScoreName, "Hello")
    /\ BTreeMap_get(reg, ScoreName) = Some(<<"Score", ScoreInfo(ScoreName)>>)
    /\ BTreeMap_get(paths, "/") = Some(PathData_insert(PathData_new, Other(9)))
    /\ ret.val = None

\* -------------------------------------------------------------------- C5
\* C5: when a path holds instances of two different types and two interfaces are
\* registered, one for each type, a dispatch to a method of either interface at
\* that path is handled and runs the method's handler on an instance of that
\* interface's type stored at the path, in whichever order they were inserted.
C5_MatchingInstance ==
    (ret.op = "dispatch" /\ HasAllHeaders(Req)) =>
        LET p == Req.path[1]
            i == Req.interface[1]
            m == Req.member[1]
        IN  ( /\ i \in DOMAIN reg
              /\ HandlersOf(reg[i][2], m) # {}
              /\ p \in DOMAIN paths
              /\ InstancesOf(paths[p], reg[i][1]) # {}
              /\ \E i2 \in DOMAIN reg :
                    /\ reg[i2][1] # reg[i][1]
                    /\ InstancesOf(paths[p], reg[i2][1]) # {} )
            => ( /\ ret.val # None
                 /\ ret.invoked # <<>>
                 /\ ret.invoked[1][1] \in HandlersOf(reg[i][2], m)
                 /\ ret.invoked[1][2] \in InstancesOf(paths[p], reg[i][1]) )

\* Other was inserted before Score; Hello of the Score interface ran on Score(7)
\* while the Other interface is registered too.
C5_Witness ==
    /\ ret.op = "dispatch"
    /\ Req = Message_new_method_call("/", ScoreName, "Hello")
    /\ BTreeMap_get(reg, ScoreName) = Some(<<"Score", ScoreInfo(ScoreName)>>)
    /\ BTreeMap_get(reg, OtherName) = Some(<<"Other", ScoreInfo(OtherName)>>)
    /\ BTreeMap_get(paths, "/")
         = Some(PathData_insert(PathData_insert(PathData_new, Other(9)), Score(7)))
    /\ ret.invoked = <<<<"hello", Score(7)>>>>

\* -------------------------------------------------------------------- C6
\* C6: register returns the IfaceInfo stored under the same interface name before
\* the call, or nothing when the name was not registered, and leaves the registry
\* holding the newly registered type and description under that name; it does so
\* on every registration of a name, the first, the second and the third alike.
C6_RegisterReturnsPrevious ==
    [][ret'.op = "register" =>
          LET I    == ret'.arg[1]
              info == ret'.arg[2]
          IN  /\ ret'.val = IF info.name \in DOMAIN reg
                            THEN Some(reg[info.name][2]) ELSE None
              /\ info.name \in DOMAIN reg'
              /\ reg'[info.name] = <<I, info>>]_vars

\* A re-registration of the Score interface returned the description it displaced.
C6_Witness ==
    /\ ret.op = "register"
    /\ ret.arg = <<"Other", ScoreInfo(ScoreName)>>
    /\ ret.val = Some(QuietInfo(ScoreName))
    /\ BTreeMap_get(reg, ScoreName) = Some(<<"Other", ScoreInfo(ScoreName)>>)

\* -------------------------------------------------------------------- C7
\* The instances a PathData holds.
Held(data) == {data[k][2] : k \in 1..Len(data)}

\* The instances the handlers of a dispatch result ran on.
Reached(res) == {res.invoked[k][2] : k \in 1..Len(res.invoked)}

\* C7: the path table starts empty and a path enters it only by an insert at
\* that path; after insert(P, data) get_data(P) is exactly data, also when P had
\* an entry before, and every dispatch at P runs handlers only on instances of
\* data; get_data returns the entry of the path, absent when there is none.
C7_InsertReplaces ==
    /\ DOMAIN paths = {}
    /\ [][\A q \in DOMAIN paths' :
              q \in DOMAIN paths \/ (ret'.op = "insert" /\ ret'.arg[1] = q)]_vars
    /\ []( /\ ret.op = "insert" =>
                /\ get_data(cr, ret.arg[1]) = Some(ret.arg[2])
                /\ \A msg \in Requests :
                      (HasAllHeaders(msg) /\ msg.path = Some(ret.arg[1]))
                          => Reached(dispatch(cr, msg)) \subseteq Held(ret.arg[2])
           /\ ret.op = "get_data" =>
                ret.val = IF ret.arg[1] \in DOMAIN paths
                          THEN Some(paths[ret.arg[1]]) ELSE None
           /\ (ret.op = "dispatch" /\ ret.val # None) =>
                Reached(ret) \subseteq Held(paths[Req.path[1]]) )

\* An insert displaced the entry of "/"; the path now holds Score(8) only.
C7_Witness ==
    /\ ret.op = "insert"
    /\ ret.val = Some(TRUE)
    /\ ret.arg = <<"/", PathData_insert(PathData_new, Score(8))>>
    /\ get_data(cr, "/") = Some(PathData_insert(PathData_new, Score(8)))

\* -------------------------------------------------------------------- C8
\* C8: right after new_sync, before any call by the owner, the registry holds
\* the builtin properties interface under org.freedesktop.DBus.Properties and
\* the path table is empty.
C8_SeededAtConstruction ==
    ret.op = "new_sync" =>
        /\ PropsName \in DOMAIN reg
        /\ reg[PropsName][2].name = PropsName
        /\ DOMAIN paths = {}

\* The state new_sync returns.
C8_Witness ==
    /\ ret.op = "new_sync"
    /\ phase = "setup"
    /\ BTreeMap_get(reg, PropsName) # None

\* -------------------------------------------------------------------- C9
\* req is a Properties.Get(interface_name, property_name) call.
IsGet(req) ==
    /\ HasAllHeaders(req)
    /\ req.interface = Some(PropsName)
    /\ req.member = Some("Get")
    /\ Len(req.args) = 2

\* The names of the properties of an interface description.
PropNames(info) == {info.props[k].name : k \in 1..Len(info.props)}

\* The names of the properties a description lets callers read.
ReadableProps(info) ==
    {info.props[k].name : k \in {j \in 1..Len(info.props) : info.props[j].access # "wo"}}

\* C9: when interface I is registered for type T with a readable property Pr and
\* path P holds an instance of T and the builtin properties handler, a
\* Properties.Get(I, Pr) call at P returns exactly one reply, a method return
\* carrying the value Pr's getter yields for an instance of T stored at P.
C9_GetReturnsValue ==
    (ret.op = "dispatch" /\ IsGet(Req)) =>
        LET p  == Req.path[1]
            i  == Req.args[1]
            pr == Req.args[2]
        IN  ( /\ i \in DOMAIN reg
              /\ pr \in ReadableProps(reg[i][2])
              /\ p \in DOMAIN paths
              /\ InstancesOf(paths[p], reg[i][1]) # {}
              /\ DBusProperties \in Held(paths[p]) )
            => ( /\ ret.val # None
                 /\ Len(ret.val[1]) = 1
                 /\ ret.val[1][1].msg_type = "MethodReturn"
                 /\ \E x \in InstancesOf(paths[p], reg[i][1]) :
                       ret.val[1][1].args = <<[variant |-> x.val]>> )

\* The test's case: Get("...score", "Score") at "/" returns the wrapped 7.
C9_Witness ==
    /\ ret.op = "dispatch"
    /\ Req = append2(Message_new_method_call("/", PropsName, "Get"), ScoreName, "Score")
    /\ BTreeMap_get(reg, ScoreName) = Some(<<"Score", ScoreInfo(ScoreName)>>)
    /\ BTreeMap_get(paths, "/")
         = Some(PathData_insert(PathData_insert(PathData_new, Score(7)), DBusProperties))
    /\ ret.val = Some(<<method_return(Req, [variant |-> 7])>>)

\* ------------------------------------------------------------------- C10
\* C10 as stated: a Properties.Get for a property name that is not among the
\* properties of a registered interface returns a handled result holding an
\* error reply.
C10_UnknownPropertyErrorAnywhere ==
    (ret.op = "dispatch" /\ IsGet(Req)) =>
        LET i  == Req.args[1]
            pr == Req.args[2]
        IN  (i \in DOMAIN reg /\ pr \notin PropNames(reg[i][2]))
            => ( /\ ret.val # None
                 /\ Len(ret.val[1]) = 1
                 /\ ret.val[1][1].msg_type = "Error" )

\* C10 amended: at a path that holds the builtin properties handler, a
\* Properties.Get for a property name that is not among the properties of a
\* registered interface returns a handled result holding one error reply.
C10_UnknownPropertyError ==
    (ret.op = "dispatch" /\ IsGet(Req)) =>
        LET p  == Req.path[1]
            i  == Req.args[1]
            pr == Req.args[2]
        IN  ( /\ i \in DOMAIN reg
              /\ pr \notin PropNames(reg[i][2])
              /\ p \in DOMAIN paths
              /\ DBusProperties \in Held(paths[p]) )
            => ( /\ ret.val # None
                 /\ Len(ret.val[1]) = 1
                 /\ ret.val[1][1].msg_type = "Error" )

\* Get("...score", "Nope") at a path holding Score(7) and the properties handler.
C10_Witness ==
    /\ ret.op = "dispatch"
    /\ Req = append2(Message_new_method_call("/", PropsName, "Get"), ScoreName, "Nope")
    /\ BTreeMap_get(reg, ScoreName) = Some(<<"Score", ScoreInfo(ScoreName)>>)
    /\ BTreeMap_get(paths, "/")
         = Some(PathData_insert(PathData_insert(PathData_new, Score(7)), DBusProperties))
    /\ ret.val = Some(<<error_reply(Req, "UnknownProperty")>>)

\* ------------------------------------------------------------------- C11
\* Every lookup step of the request succeeds in the current registry.
Resolves(msg) ==
    /\ HasAllHeaders(msg)
    /\ msg.interface[1] \in DOMAIN reg
    /\ msg.path[1] \in DOMAIN paths
    /\ HandlersOf(reg[msg.interface[1]][2], msg.member[1]) # {}
    /\ InstancesOf(paths[msg.path[1]], reg[msg.interface[1]][1]) # {}

\* C11: when every lookup step succeeds, dispatch is handled and returns exactly
\* the replies the method handler produced on the instance it ran on, none when
\* the handler declined to reply; a handled result with no reply differs from
\* the not-handled result.
C11_ReturnsHandlerReplies ==
    (ret.op = "dispatch" /\ Resolves(Req)) =>
        /\ ret.val # None
        /\ ret.invoked # <<>>
        /\ LET h  == ret.invoked[1][1]
               x  == ret.invoked[1][2]
               si == SyncInfo(cr, paths[Req.path[1]])
           IN  /\ h \in HandlersOf(reg[Req.interface[1]][2], Req.member[1])
               /\ ret.val = Some(call(h, x, Req, si).r)
               /\ (h \notin Replying /\ h = "quiet") => Len(ret.val[1]) = 0
        /\ ret.val # NotHandled.ret

\* Quiet on Score(7) at "/" ran and declined: handled, with no reply.
C11_Witness ==
    /\ ret.op = "dispatch"
    /\ Req = Message_new_method_call("/", ScoreName, "Quiet")
    /\ ret.invoked = <<<<"quiet", Score(7)>>>>
    /\ ret.val = Some(<<>>)
    /\ ret.val # None

\* ------------------------------------------------------------------- C12
\* The steps of a dispatch in the order the claim gives them.
StepOrder == <<"headers", "interface", "method", "path", "instance", "handler">>

\* The handlers that MethodInfos store (the others are property getters).
MethodHandlers == {"hello", "quiet", "get", "set", "getall"}

\* The step of StepOrder at which the request first misses; 6 when none does.
FirstMiss(msg) ==
    IF ~HasAllHeaders(msg) THEN 1
    ELSE IF msg.interface[1] \notin DOMAIN reg THEN 2
    ELSE IF HandlersOf(reg[msg.interface[1]][2], msg.member[1]) = {} THEN 3
    ELSE IF msg.path[1] \notin DOMAIN paths THEN 4
    ELSE IF InstancesOf(paths[msg.path[1]], reg[msg.interface[1]][1]) = {} THEN 5
    ELSE 6

\* C12: a dispatch runs its steps in the order headers, interface, method, path,
\* instance and stops at the first step that misses, returning not-handled with
\* no handler run; the method handler runs only when all five steps succeeded,
\* and then exactly once.
C12_LookupOrder ==
    ret.op = "dispatch" =>
        LET s == dispatch_steps(cr, Req)
            n == Cardinality({k \in 1..Len(ret.invoked) : ret.invoked[k][1] \in MethodHandlers})
        IN  /\ s = SubSeq(StepOrder, 1, FirstMiss(Req))
            /\ (FirstMiss(Req) < 6) => (ret.val = None /\ ret.invoked = <<>>)
            /\ (FirstMiss(Req) = 6) => (ret.val # None /\ n = 1)
            /\ n <= 1

\* Quiet at "/other" while the interface has no method Quiet and the path is
\* absent: both later steps would miss, the dispatch stops at the method.
C12_Witness ==
    /\ ret.op = "dispatch"
    /\ Req = Message_new_method_call("/other", ScoreName, "Quiet")
    /\ BTreeMap_get(reg, ScoreName) = Some(<<"Score", ScoreInfo(ScoreName)>>)
    /\ BTreeMap_get(paths, "/other") = None
    /\ dispatch_steps(cr, Req) = <<"headers", "interface", "method">>
    /\ ret.val = None
    /\ ret.invoked = <<>>

\* ------------------------------------------------------------------- C13
\* C13: a dispatch call, handled or not, leaves the interface registry and the
\* path table exactly as they were before the call.
C13_DispatchReadsOnly ==
    [][ret'.op = "dispatch" => (reg' = reg /\ paths' = paths)]_vars

\* A handled dispatch and a not-handled one happened on a populated registry:
\* Hello at "/other", which has no entry, was refused while "/" holds Score(7).
C13_Witness ==
    /\ ret.op = "dispatch"
    /\ Req = Message_new_method_call("/other", ScoreName, "Hello")
    /\ ret.val = None
    /\ BTreeMap_get(reg, ScoreName) = Some(<<"Score", ScoreInfo(ScoreName)>>)
    /\ BTreeMap_get(paths, "/") = Some(PathData_insert(PathData_new, Score(7)))
    /\ BTreeMap_get(paths, "/other") = None

\* ------------------------------------------------------------------- C14
\* The instance of concrete type T that was put into data first.
EarliestOf(data, T) ==
    LET ks == {k \in 1..Len(data) : data[k][2].type = T}
    IN  data[CHOOSE k \in ks : \A j \in ks : k <= j][2]

\* The instances of data that stand behind an earlier one of the same type and
\* nowhere first of their type.
Shadowed(data) ==
    {data[k][2] : k \in {j \in 1..Len(data) : \E e \in 1..(j - 1) : data[e][2].type = data[j][2].type}}
    \ {data[k][2] : k \in {j \in 1..Len(data) : \A e \in 1..(j - 1) : data[e][2].type # data[j][2].type}}

\* C14: PathData::insert puts the new entry behind the ones already there, and
\* the lookups take the first entry of the wanted type: at a path whose PathData
\* holds several instances of one type, a handled dispatch runs its method
\* handler on the earliest of them, a property lookup yields the earliest, and
\* no request reaches an instance that stands behind another of its type.
C14_FirstMatchWins ==
    /\ (ret.op = "dispatch" /\ ret.val # None) =>
          ret.invoked[1][2] = EarliestOf(paths[Req.path[1]], reg[Req.interface[1]][1])
    /\ ret.op = "insert" =>
          LET data == ret.arg[2]
          IN  /\ data # PathData_new =>
                    LET d == SubSeq(data, 1, Len(data) - 1)
                        x == data[Len(data)][2]
                    IN  /\ data = PathData_insert(d, x)
                        /\ \A T \in TypeIds :
                              InstancesOf(d, T) # {} => EarliestOf(data, T) = EarliestOf(d, T)
              /\ \A i \in DOMAIN reg : \A pr \in PropNames(reg[i][2]) :
                    LET l == reg_prop_lookup(cr, data, i, pr)
                    IN  IF InstancesOf(data, reg[i][1]) = {} THEN l = None
                        ELSE l # None /\ l[1][1].iface = EarliestOf(data, reg[i][1])
              /\ \A msg \in Requests :
                    (HasAllHeaders(msg) /\ msg.path = Some(ret.arg[1]))
                        => Reached(dispatch(cr, msg)) \cap Shadowed(data) = {}

\* "/" holds Score(7) and, inserted after it, Score(8): Hello ran on Score(7)
\* and the property lookup yields Score(7).
C14_Witness ==
    /\ ret.op = "dispatch"
    /\ Req = Message_new_method_call("/", ScoreName, "Hello")
    /\ BTreeMap_get(reg, ScoreName) = Some(<<"Score", ScoreInfo(ScoreName)>>)
    /\ BTreeMap_get(paths, "/") = Some(PathData_insert(PathData_insert(PathData_new, Score(7)), Score(8)))
    /\ ret.invoked = <<<<"hello", Score(7)>>>>
    /\ reg_prop_lookup(cr, paths["/"], ScoreName, "Score")[1][1].iface = Score(7)
    /\ Shadowed(paths["/"]) = {Score(8)}

\* ------------------------------------------------------------------- C15
\* The names a caller passes as property name: a property, a name no interface
\* has, and names of methods.
PropKeys == {"Score", "Nope", "Hello", "Get"}

\* The instances of the entries of data whose type tag is T.
TaggedAs(data, T) == {data[k][2] : k \in {j \in 1..Len(data) : data[j][1] = T}}

\* N is registered, Pr is a property of N, and data has an entry with N's tag.
PropResolves(data, N, Pr) ==
    /\ N \in DOMAIN reg
    /\ Pr \in PropNames(reg[N][2])
    /\ TaggedAs(data, reg[N][1]) # {}

\* C15: reg_prop_lookup(N, Pr, data) succeeds exactly when N is registered, Pr
\* names a property of N and data holds an entry tagged with N's registered
\* type; it then yields an instance of that tag out of data and the PropInfo
\* named Pr.  The builtin Get and Set handlers resolve their string arguments
\* this way against the PathData of the request's own path, whatever other
\* paths hold, and by the property name, whatever member was called.
C15_PropertyLookup ==
    /\ phase = "setup" =>
          \A p \in DOMAIN paths, N \in IfaceNames, Pr \in PropKeys :
              LET l == reg_prop_lookup(cr, paths[p], N, Pr)
              IN  IF PropResolves(paths[p], N, Pr)
                  THEN /\ l # None
                       /\ l[1][1].iface \in TaggedAs(paths[p], reg[N][1])
                       /\ l[1][1].data = paths[p]
                       /\ l[1][2].name = Pr
                       /\ \E k \in 1..Len(reg[N][2].props) : reg[N][2].props[k] = l[1][2]
                  ELSE l = None
    /\ (ret.op = "dispatch" /\ ret.val # None /\ HasAllHeaders(Req)
           /\ Req.interface = Some(PropsName) /\ Req.member[1] \in {"Get", "Set"}) =>
          LET data == paths[Req.path[1]]
              N    == Req.args[1]
              Pr   == Req.args[2]
              l    == reg_prop_lookup(cr, data, N, Pr)
          IN  IF PropResolves(data, N, Pr)
              THEN /\ ret.val[1][1] # error_reply(Req, "UnknownProperty")
                   /\ Req.member[1] = "Get" =>
                         /\ ret.invoked = <<<<"get", DBusProperties>>, <<l[1][2].handler, l[1][1].iface>>>>
                         /\ ret.invoked[2][2] \in TaggedAs(data, reg[N][1])
                         /\ ret.val[1][1].args = <<[variant |-> ret.invoked[2][2].val]>>
                   /\ Req.member[1] = "Set" =>
                         /\ ret.val[1][1] = error_reply(Req, "PropertyReadOnly")
                         /\ Len(ret.invoked) = 1
              ELSE /\ ret.val = Some(<<error_reply(Req, "UnknownProperty")>>)
                   /\ Len(ret.invoked) = 1

\* Get("...score", "Score") at "/", which holds only the properties handler,
\* while "/other" holds Score(7): the lookup fails and no getter runs.
C15_Witness ==
    /\ ret.op = "dispatch"
    /\ Req = append2(Message_new_method_call("/", PropsName, "Get"), ScoreName, "Score")
    /\ BTreeMap_get(reg, ScoreName) = Some(<<"Score", ScoreInfo(ScoreName)>>)
    /\ BTreeMap_get(paths, "/") = Some(PathData_insert(PathData_new, DBusProperties))
    /\ BTreeMap_get(paths, "/other") = Some(PathData_insert(PathData_new, Score(7)))
    /\ reg_prop_lookup(cr, paths["/"], ScoreName, "Score") = None
    /\ reg_prop_lookup(cr, paths["/other"], ScoreName, "Score") # None
    /\ ret.val = Some(<<error_reply(Req, "UnknownProperty")>>)

\* ------------------------------------------------------------------- C18
\* C18: a Properties Get, Set or GetAll call to a path that has no entry, or
\* whose PathData holds no instance of the builtin properties-handler type, is
\* not handled and runs no handler, also when the path holds an instance that
\* backs the interface named in the call's arguments.
C18_PropertiesNeedHandlerInstance ==
    (ret.op = "dispatch" /\ HasAllHeaders(Req) /\ Req.interface = Some(PropsName)
       /\ Req.member[1] \in {"Get", "Set", "GetAll"}) =>
        LET p == Req.path[1]
        IN  (p \notin DOMAIN paths \/ TaggedAs(paths[p], TypeId_of(DBusProperties)) = {})
            => (ret.val = None /\ ret.invoked = <<>>)

\* Set("...score", "Score", 1) at "/", which holds Score(7) and no properties
\* handler: not handled, although Score backs the target interface.
C18_Witness ==
    /\ ret.op = "dispatch"
    /\ Req = [Message_new_method_call("/", PropsName, "Set") EXCEPT !.args = <<ScoreName, "Score", 1>>]
    /\ BTreeMap_get(reg, ScoreName) = Some(<<"Score", ScoreInfo(ScoreName)>>)
    /\ BTreeMap_get(reg, PropsName) = Some(<<TypeId_of(DBusProperties), DBusPropertiesInfo>>)
    /\ BTreeMap_get(paths, "/") = Some(PathData_insert(PathData_new, Score(7)))
    /\ ret.val = None

\* ------------------------------------------------------------------- C19
\* C19: a register call for a name that is registered under another type
\* replaces the type along with the description: from then on a dispatch to
\* that interface is handled only by an instance of the new type, and is not
\* handled at a path that holds no instance of the new type, also when the
\* same request was handled there before the call.
C19_ReRegisterReplacesTag ==
    [][ ( /\ ret'.op = "register"
          /\ ret'.arg[2].name \in DOMAIN reg
          /\ reg[ret'.arg[2].name][1] # ret'.arg[1] ) =>
            LET I  == ret'.arg[2].name
                T2 == ret'.arg[1]
                after == Crossroads(reg', paths')
            IN  /\ reg'[I] = <<T2, ret'.arg[2]>>
                /\ \A msg \in Requests :
                      (HasAllHeaders(msg) /\ msg.interface = Some(I)) =>
                          LET res == dispatch(after, msg)
                          IN  /\ res.ret # None => res.invoked[1][2].type = T2
                              /\ ( /\ msg.path[1] \in DOMAIN paths'
                                   /\ TaggedAs(paths'[msg.path[1]], T2) = {} )
                                  => res = NotHandled ]_vars

\* The interface of Score was registered again for Other while "/" holds
\* Score(7): Hello at "/" was handled before the call and is not after it.
C19_Witness ==
    /\ ret.op = "register"
    /\ ret.arg = <<TypeId_of(Other(9)), ScoreInfo(ScoreName)>>
    /\ ret.val = Some(QuietInfo(ScoreName))
    /\ BTreeMap_get(paths, "/") = Some(PathData_insert(PathData_new, Score(7)))
    /\ dispatch(register(cr, TypeId_of(Score(7)), QuietInfo(ScoreName)).cr,
                Message_new_method_call("/", ScoreName, "Hello")).ret # None
    /\ dispatch(cr, Message_new_method_call("/", ScoreName, "Hello")) = NotHandled

\* ------------------------------------------------------------------- C20
\* Maps a and b agree on every key of a other than k, and b has a's keys and k.
OnlyKeyChanged(a, b, k) ==
    /\ DOMAIN b = DOMAIN a \cup {k}
    /\ \A x \in DOMAIN a \ {k} : b[x] = a[x]

\* C20: register changes the registry entry of the registered name only and
\* leaves the path table alone; insert changes the path-table entry of its path
\* only and leaves the registry alone; no call removes a registered name or a
\* path, so both key sets only grow.
C20_Frame ==
    [][ /\ ret'.op = "register" =>
              (paths' = paths /\ OnlyKeyChanged(reg, reg', ret'.arg[2].name))
        /\ ret'.op = "insert" =>
              (reg' = reg /\ OnlyKeyChanged(paths, paths', ret'.arg[1]))
        /\ DOMAIN reg \subseteq DOMAIN reg'
        /\ DOMAIN paths \subseteq DOMAIN paths' ]_vars

\* Another interface was registered while the one of Score is registered and
\* "/" and "/other" hold data: three names, two paths remain.
C20_Witness ==
    /\ ret.op = "register"
    /\ ret.arg = <<TypeId_of(Other(9)), ScoreInfo(OtherName)>>
    /\ ret.val = None
    /\ DOMAIN reg = {PropsName, ScoreName, OtherName}
    /\ BTreeMap_get(reg, ScoreName) = Some(<<"Score", QuietInfo(ScoreName)>>)
    /\ BTreeMap_get(paths, "/") = Some(PathData_insert(PathData_new, Score(7)))
    /\ BTreeMap_get(paths, "/other") = Some(PathData_insert(PathData_new, Other(9)))

\* ------------------------------------------------------------------- C16
\* Thread t is inside a handler that never returns.
Stalled(t) ==
    /\ calls[t].pc = "handler"
    /\ ~Terminates(calls[t].lookup[1][2].handler)

\* C16: a dispatch call returns a handled result only out of its handler having
\* returned, and a not-handled result only out of a lookup miss; a call whose
\* lookup misses always returns not-handled; every call returns unless its
\* handler never returns, and a handler that never returns holds up its own
\* call and no other thread's.
C16_SynchronousDispatch ==
    /\ [][\A t \in Threads :
             /\ (calls'[t].pc = "returned" /\ calls[t].pc # "returned") =>
                   IF calls'[t].out = Some(None)
                   THEN calls[t].pc = "lookup" /\ FirstMiss(calls[t].msg[1]) < 6
                   ELSE calls[t].pc = "handler" /\ ~Stalled(t)
             /\ (calls[t].pc = "lookup" /\ calls'[t] # calls[t]) =>
                   IF FirstMiss(calls[t].msg[1]) < 6
                   THEN calls'[t].pc = "returned" /\ calls'[t].out = Some(None)
                   ELSE calls'[t].pc = "handler"
             /\ Stalled(t) => calls'[t] = calls[t]]_vars
    /\ \A t \in Threads :
          (calls[t].pc \in {"lookup", "handler"} /\ ~Stalled(t))
              ~> (calls[t].pc = "returned" \/ Stalled(t))

\* Thread 1 sits in the handler of Wait, which never returns, while thread 2's
\* Hello has returned its reply.
C16_Witness ==
    /\ calls[1].msg = Some(Message_new_method_call("/", ScoreName, "Wait"))
    /\ Stalled(1)
    /\ calls[2].msg = Some(Message_new_method_call("/", ScoreName, "Hello"))
    /\ calls[2].pc = "returned"
    /\ calls[2].out = Some(Some(<<method_return(calls[2].msg[1],
                                     [fmt |-> "Hello, my score is {}!", arg |-> 7])>>))

\* ------------------------------------------------------------------- C17
\* C17: on a registry that is no longer changed, whatever the other threads'
\* calls do in between, a dispatch call that is in its handler holds the lookup
\* it would hold when run alone, and a call that has returned has returned what
\* dispatch returns for its request when run alone on that registry.
C17_ConcurrentDispatchesIndependent ==
    \A t \in Threads :
        /\ calls[t].pc = "handler" =>
              calls[t].lookup = reg_lookup(cr, msg_headers(calls[t].msg[1])[1])
        /\ calls[t].pc = "returned" =>
              calls[t].out = Some(dispatch(cr, calls[t].msg[1]).ret)

\* Two calls in flight at once: thread 1 is in the Get handler while thread 2's
\* Hello at "/other", which has no entry, has returned not-handled.
C17_Witness ==
    /\ calls[1].pc = "handler"
    /\ calls[1].msg = Some(append2(Message_new_method_call("/", PropsName, "Get"), ScoreName, "Score"))
    /\ calls[2].pc = "returned"
    /\ calls[2].msg = Some(Message_new_method_call("/other", ScoreName, "Hello"))
    /\ calls[2].out = Some(None)
    /\ dispatch(cr, calls[1].msg[1]).ret # None

====
